---- MODULE Spec2Model ----
(***************************************************************************)
(* Two-pass agenda report generation of PacificaAutoAgendaWriter:          *)
(* GUITokenFilter, AgendaBackend.generate_report and                       *)
(* AgendaBackend._run_generation of kivybackend.py and backend.py.         *)
(*                                                                         *)
(* A text is a sequence of one-character strings, so that str.find,        *)
(* slicing and concatenation are computed on characters.                   *)
(***************************************************************************)
EXTENDS Integers, Sequences, FiniteSets, TLC

(***************************************************************************)
(* Bounds of the model.                                                    *)
(***************************************************************************)
\* longest generated filter input, counted in pieces (a letter or a whole marker)
MaxPieces == 3
\* most rows the caller selects for one run
MaxRows == 2
\* most generate_report calls (worker threads) in one behaviour
MaxRuns == 2
\* most rows given to the grouping loop run on its own
MaxGroupRows == 3
\* longest raw pass-1 text given to _extract_clean_summary, counted in pieces
MaxSummaryPieces == 5

(***************************************************************************)
(* Texts.                                                                  *)
(***************************************************************************)
\* the literal "<think>"
OPEN_TAG == <<"<", "t", "h", "i", "n", "k", ">">>

\* the literal "</think>"
CLOSE_TAG == <<"<", "/", "t", "h", "i", "n", "k", ">">>

\* the literal "\n\n" that separates date groups
SEPARATOR == <<"\n", "\n">>

\* s[from:] of Python, from >= 0
Slice(s, from) == SubSeq(s, from + 1, Len(s))

\* s[:to] of Python; a negative `to` counts from the end, as Python does
Prefix(s, to) == IF to >= 0 THEN SubSeq(s, 1, to) ELSE SubSeq(s, 1, Len(s) + to)

\* does pat occur in s at 0-based offset i
OccursAt(s, pat, i) == /\ i + Len(pat) <= Len(s)
                       /\ SubSeq(s, i + 1, i + Len(pat)) = pat

\* str.find: the lowest 0-based offset of pat in s, or -1
Find(s, pat) ==
    LET hits == {i \in 0..Len(s) : OccursAt(s, pat, i)}
    IN  IF hits = {} THEN -1 ELSE CHOOSE i \in hits : \A j \in hits : i <= j

\* "".join(parts)
RECURSIVE Concat(_)
Concat(parts) == IF parts = <<>> THEN <<>> ELSE Head(parts) \o Concat(Tail(parts))

(***************************************************************************)
(* GUITokenFilter.                                                         *)
(***************************************************************************)
\* GUITokenFilter.__init__
NewFilter == [buf |-> <<>>, in_think |-> FALSE]

\* filter_token with the "not found" test of the opening marker forgotten:
\* out += buf[:start] runs with start = -1
RECURSIVE FilterLoopNoMinusOne(_, _, _)
FilterLoopNoMinusOne(buf, in_think, out) ==
    IF buf = <<>> THEN [buf |-> buf, in_think |-> in_think, out |-> out]
    ELSE IF ~in_think
         THEN LET start == Find(buf, OPEN_TAG)
              IN  IF start = -1
                  THEN FilterLoopNoMinusOne(<<>>, in_think, out \o Prefix(buf, start))
                  ELSE FilterLoopNoMinusOne(Slice(buf, start + Len(OPEN_TAG)), TRUE,
                                            out \o Prefix(buf, start))
         ELSE LET end == Find(buf, CLOSE_TAG)
              IN  IF end = -1
                  THEN FilterLoopNoMinusOne(<<>>, in_think, out)
                  ELSE FilterLoopNoMinusOne(Slice(buf, end + Len(CLOSE_TAG)), FALSE, out)

\* a loop that keeps the buffer for the next call when it finds no opening
\* marker, where the code returns it and empties it
RECURSIVE FilterLoopKeepsBuffer(_, _, _)
FilterLoopKeepsBuffer(buf, in_think, out) ==
    IF buf = <<>> THEN [buf |-> buf, in_think |-> in_think, out |-> out]
    ELSE IF ~in_think
         THEN LET start == Find(buf, OPEN_TAG)
              IN  IF start = -1
                  THEN [buf |-> buf, in_think |-> in_think, out |-> out]
                  ELSE FilterLoopKeepsBuffer(Slice(buf, start + Len(OPEN_TAG)), TRUE,
                                             out \o Prefix(buf, start))
         ELSE LET end == Find(buf, CLOSE_TAG)
              IN  IF end = -1
                  THEN FilterLoopKeepsBuffer(<<>>, in_think, out)
                  ELSE FilterLoopKeepsBuffer(Slice(buf, end + Len(CLOSE_TAG)), FALSE, out)

\* the while loop of filter_token: runs until the buffer is empty
RECURSIVE FilterLoop(_, _, _)
FilterLoop(buf, in_think, out) ==
    IF buf = <<>> THEN [buf |-> buf, in_think |-> in_think, out |-> out]
    ELSE IF ~in_think
         THEN LET start == Find(buf, OPEN_TAG)
              IN  IF start = -1
                  THEN FilterLoop(<<>>, in_think, out \o buf)
                  ELSE FilterLoop(Slice(buf, start + Len(OPEN_TAG)), TRUE,
                                  out \o Prefix(buf, start))
         ELSE LET end == Find(buf, CLOSE_TAG)
              IN  IF end = -1
                  THEN FilterLoop(<<>>, in_think, out)
                  ELSE FilterLoop(Slice(buf, end + Len(CLOSE_TAG)), FALSE, out)

\* GUITokenFilter.filter_token: the new filter state and the returned text
filter_token(f, token) ==
    IF token = <<>> THEN [buf |-> f.buf, in_think |-> f.in_think, out |-> <<>>]
    ELSE FilterLoop(f.buf \o token, f.in_think, <<>>)

\* the filter object left by a call
FilterOf(r) == [buf |-> r.buf, in_think |-> r.in_think]

(***************************************************************************)
(* Inputs of the filter: texts made of letters and whole markers, fed in   *)
(* every possible chunking.                                                *)
(***************************************************************************)
Pieces == {<<"A">>, <<"<">>, OPEN_TAG, CLOSE_TAG}

\* "A<think>B</think>C" and "A<think>B", the inputs the specification names
ExampleTexts == {<<"A">> \o OPEN_TAG \o <<"B">> \o CLOSE_TAG \o <<"C">>,
                 <<"A">> \o OPEN_TAG \o <<"B">>}

FilterTexts == ExampleTexts \cup
               {Concat(ps) : ps \in UNION {[1..n -> Pieces] : n \in 0..MaxPieces}}

(***************************************************************************)
(* Rows, grouping and the per-group sort of _run_generation.               *)
(***************************************************************************)
\* str(r[csv_headers["date"]]) of the rows the model draws
Dates == {"10-Sep", "25-Aug"}

\* str(x.get(csv_headers["section"], "")) of the rows, as texts; <<>> is a
\* missing section
Sections == {<<>>, <<"C">>, <<"S">>}

\* the agenda item a row is about: what tells two rows of one section apart
Items == {"i1", "i2"}

Rows == [date : Dates, section : Sections, item : Items]

\* every selection of at most MaxRows rows
RowSeqs == UNION {[1..n -> Rows] : n \in 0..MaxRows}

\* the selections the generation runs draw: they differ in their dates only
RunRowSeqs == {rs \in RowSeqs : \A i \in 1..Len(rs) :
                                    rs[i].section = <<"C">> /\ rs[i].item = "i1"}

\* ord() of the characters section keys are made of
Ord(c) == CASE c = "C" -> 67
            [] c = "S" -> 83
            [] OTHER   -> 0

\* a < b of Python strings
RECURSIVE StrLess(_, _)
StrLess(a, b) ==
    IF b = <<>> THEN FALSE
    ELSE IF a = <<>> THEN TRUE
    ELSE IF Ord(Head(a)) # Ord(Head(b)) THEN Ord(Head(a)) < Ord(Head(b))
    ELSE StrLess(Tail(a), Tail(b))

\* insert row r into the sorted list s behind every row whose key is not greater
RECURSIVE InsertByKey(_, _)
InsertByKey(s, r) ==
    IF s = <<>> THEN <<r>>
    ELSE IF StrLess(r.section, Head(s).section) THEN <<r>> \o s
    ELSE <<Head(s)>> \o InsertByKey(Tail(s), r)

\* a sort that puts a row in front of the rows of equal key: not stable
RECURSIVE SortBySectionUnstable(_)
SortBySectionUnstable(items) ==
    IF items = <<>> THEN <<>>
    ELSE LET s == SortBySectionUnstable(SubSeq(items, 1, Len(items) - 1))
             r == items[Len(items)]
             before == SelectSeq(s, LAMBDA x : StrLess(x.section, r.section))
             after == SelectSeq(s, LAMBDA x : ~StrLess(x.section, r.section))
         IN  before \o <<r>> \o after

\* items.sort(key=lambda x: str(x.get(section, ""))): list.sort is stable
RECURSIVE SortBySection(_)
SortBySection(items) ==
    IF items = <<>> THEN <<>>
    ELSE InsertByKey(SortBySection(SubSeq(items, 1, Len(items) - 1)), items[Len(items)])

\* a grouping loop that runs `grouped[date] = []` for every row, not only
\* for the first row of a date
RECURSIVE GroupLoopResets(_, _, _)
GroupLoopResets(rows, grouped, ordered_dates) ==
    IF rows = <<>> THEN [grouped |-> grouped, ordered_dates |-> ordered_dates]
    ELSE LET r == Head(rows)
             date == r.date
         IN  IF date \notin DOMAIN grouped
             THEN GroupLoopResets(Tail(rows), grouped @@ (date :> <<r>>),
                                  Append(ordered_dates, date))
             ELSE GroupLoopResets(Tail(rows),
                                  [grouped EXCEPT ![date] = <<r>>], ordered_dates)

\* the grouping loop: grouped is a dict date -> rows, ordered_dates its keys
\* in insertion order
RECURSIVE GroupLoop(_, _, _)
GroupLoop(rows, grouped, ordered_dates) ==
    IF rows = <<>> THEN [grouped |-> grouped, ordered_dates |-> ordered_dates]
    ELSE LET r == Head(rows)
             date == r.date
         IN  IF date \notin DOMAIN grouped
             THEN GroupLoop(Tail(rows), grouped @@ (date :> <<r>>),
                            Append(ordered_dates, date))
             ELSE GroupLoop(Tail(rows),
                            [grouped EXCEPT ![date] = Append(@, r)], ordered_dates)

\* the date loop running over sorted(grouped) where the code runs over
\* ordered_dates
GroupRowsSorted(rows) ==
    LET g == GroupLoop(rows, <<>>, <<>>)
    IN  [grouped |-> g.grouped,
         ordered_dates |-> SelectSeq(<<"10-Sep", "25-Aug">>,
                                     LAMBDA d : d \in DOMAIN g.grouped)]

\* grouped and ordered_dates as the loop leaves them
GroupRows(rows) == GroupLoop(rows, <<>>, <<>>)

(***************************************************************************)
(* _extract_clean_summary.                                                 *)
(***************************************************************************)
\* the characters str.strip removes
IsSpace(c) == c \in {" ", "\n"}

RECURSIVE LStrip(_)
LStrip(s) == IF s # <<>> /\ IsSpace(Head(s)) THEN LStrip(Tail(s)) ELSE s

RECURSIVE RStrip(_)
RStrip(s) == IF s # <<>> /\ IsSpace(s[Len(s)])
             THEN RStrip(SubSeq(s, 1, Len(s) - 1)) ELSE s

\* str.strip
Strip(s) == RStrip(LStrip(s))

\* str.splitlines: no empty last line behind a final line break
RECURSIVE SplitLines(_, _)
SplitLines(s, line) ==
    IF s = <<>> THEN (IF line = <<>> THEN <<>> ELSE <<line>>)
    ELSE IF Head(s) = "\n" THEN <<line>> \o SplitLines(Tail(s), <<>>)
    ELSE SplitLines(Tail(s), Append(line, Head(s)))

\* "\n".join(lines)
RECURSIVE JoinLines(_)
JoinLines(lines) ==
    IF lines = <<>> THEN <<>>
    ELSE IF Len(lines) = 1 THEN lines[1]
    ELSE lines[1] \o <<"\n">> \o JoinLines(Tail(lines))

\* [ln.strip() for ln in lines if ln.strip()]
RECURSIVE StripLines(_)
StripLines(lines) ==
    IF lines = <<>> THEN <<>>
    ELSE IF Strip(Head(lines)) = <<>> THEN StripLines(Tail(lines))
    ELSE <<Strip(Head(lines))>> \o StripLines(Tail(lines))

\* _extract_clean_summary without its `if end != -1`: raw[end + 8:] with
\* end = -1
extract_clean_summary_no_test(raw) ==
    LET end == Find(raw, CLOSE_TAG)
        cleaned == Slice(raw, end + Len(CLOSE_TAG))
    IN  JoinLines(StripLines(SplitLines(cleaned, <<>>)))

\* AgendaBackend._extract_clean_summary
extract_clean_summary(raw) ==
    LET end == Find(raw, CLOSE_TAG)
        cleaned == IF end # -1 THEN Slice(raw, end + Len(CLOSE_TAG)) ELSE raw
    IN  JoinLines(StripLines(SplitLines(cleaned, <<>>)))

\* str.split("\n"): a text that ends in a line break has an empty last line
RECURSIVE SplitNl(_, _)
SplitNl(s, line) ==
    IF s = <<>> THEN <<line>>
    ELSE IF Head(s) = "\n" THEN <<line>> \o SplitNl(Tail(s), <<>>)
    ELSE SplitNl(Tail(s), Append(line, Head(s)))

\* the loop of twopassqwen.py: every line stripped, none dropped
RECURSIVE StripEach(_)
StripEach(lines) ==
    IF lines = <<>> THEN <<>>
    ELSE <<Strip(Head(lines))>> \o StripEach(Tail(lines))

\* AgendaSummaryGenerator._extract_clean_summary of twopassqwen.py
extract_clean_summary_qwen(raw_summary) ==
    LET think_end == Find(raw_summary, CLOSE_TAG)
        cleaned == IF think_end # -1
                   THEN Strip(Slice(raw_summary, think_end + Len(CLOSE_TAG)))
                   ELSE raw_summary
    IN  JoinLines(StripEach(SplitNl(cleaned, <<>>)))

(***************************************************************************)
(* The model collaborator: create_chat_completion(stream=True) returns a   *)
(* stream of chunks; a chunk is the text of its delta, possibly empty.     *)
(***************************************************************************)
P1Scripts == { <<>>,
               << OPEN_TAG \o <<"r">> \o CLOSE_TAG, <<"\n", "S", "\n">> >>,
               << <<"S">>, <<>> >> }

P2Scripts == { <<>>,
               << <<"X">>, OPEN_TAG \o <<"t">> \o CLOSE_TAG \o <<"Y">> >>,
               << <<"X">> \o OPEN_TAG, <<"t">> >>,
               << <<>>, <<"Y">> >> }

\* the exceptions prompt rendering, the model call and the stream can raise
Exceptions == {"KeyError", "RuntimeError"}

\* which of its callbacks a caller registers
Callers == { [token_cb |-> TRUE,  done_cb |-> TRUE,  err_cb |-> TRUE],
             [token_cb |-> FALSE, done_cb |-> TRUE,  err_cb |-> TRUE],
             [token_cb |-> FALSE, done_cb |-> FALSE, err_cb |-> FALSE] }

Workers == 1..MaxRuns

VARIABLES
    f_text,     \* the whole text a stream delivers to one filter
    f_pos,      \* characters of f_text already passed to filter_token
    f_filter,   \* the GUITokenFilter object
    f_out,      \* concatenation of the values filter_token returned
    f_ret,      \* the value the last call returned
    grp,        \* the grouping loop and the per-date sort run on their own
    ext,        \* _extract_clean_summary run on its own
    impl,           \* the backend module in use: "kivybackend" or "backend"
    llm,            \* the streams the model can answer a pass-1 and a pass-2 call with
    llm_model,      \* AgendaBackend.llm_model: "None" until the model is loaded
    selected_rows,  \* the rows the caller passes to generate_report
    cancel_event,   \* the threading.Event the caller passes: is it set
    raised,         \* what the last generate_report call raised to its caller
    run,            \* per worker thread: the locals of _run_generation
    sink,           \* per worker thread: the callback invocations, in order
    ui,             \* the Kivy app in front of the backend: its widgets and its main thread
    calls,          \* per worker thread: the prompts of its create_chat_completion calls
    seen_at,        \* per worker thread: the check at which it saw the event set
    after_set       \* per worker thread: what it did while the event was set

fvars == <<f_text, f_pos, f_filter, f_out, f_ret>>

pvars == <<grp, ext>>

gvars == <<impl, llm, llm_model, selected_rows, cancel_event, raised>>

wvars == <<run, sink, ui, calls, seen_at, after_set>>

vars == <<fvars, pvars, gvars, wvars>>

(***************************************************************************)
(* The filter alone.                                                       *)
(***************************************************************************)
FilterIdle == /\ f_text = <<>>
              /\ f_pos = 0
              /\ f_filter = NewFilter
              /\ f_out = <<>>
              /\ f_ret = <<>>

\* the grouping loop before its first row
NewGrouping(rows) == [pc |-> "grouping", rows |-> rows, grouped |-> <<>>,
                      ordered_dates |-> <<>>, gi |-> 0, rendered |-> <<>>]

\* _extract_clean_summary before the call
NewExtraction(raw) == [pc |-> "call", raw |-> raw, clean |-> <<>>]

PureIdle == /\ grp = NewGrouping(<<>>)
            /\ ext = NewExtraction(<<>>)

\* the locals of a thread that has not been started
IdleRun == [pc |-> "idle", cbs |-> [token_cb |-> FALSE, done_cb |-> FALSE, err_cb |-> FALSE],
            rows |-> <<>>, ordered_dates |-> <<>>, grouped |-> <<>>, gi |-> 0,
            md |-> "", prompt |-> <<>>, reply |-> <<>>, stream |-> <<>>, chunk |-> <<>>,
            raw_summary |-> <<>>, full_output |-> <<>>, gui_filter |-> NewFilter,
            exc |-> "none", exc_at |-> "none"]

\* PacificaAgendaApp before any generation; app says whether the callers of
\* the backend are this app's _start_generation and its callbacks.
\* gen_output holds, for each fragment appended behind "Generating...", the
\* thread it came from; queue holds the calls of @mainthread methods that
\* wait for the main thread; current is the thread of the last generation
\* started; confirmed and late record which threads the user has cancelled
\* and what such a thread has done to the widgets since.
IdleUi == [app |-> FALSE, screen |-> "review", popup |-> FALSE,
           save_disabled |-> TRUE, gen_output |-> <<>>,
           generated_report_text |-> <<>>, queue |-> <<>>,
           current |-> 0, confirmed |-> {}, late |-> {}]

NoRuns == /\ run = [w \in Workers |-> IdleRun]
          /\ ui = IdleUi
          /\ sink = [w \in Workers |-> [tokens |-> <<>>, done |-> <<>>, err |-> <<>>]]
          /\ calls = [w \in Workers |-> <<>>]
          /\ seen_at = [w \in Workers |-> "none"]
          /\ after_set = [w \in Workers |-> [tokens |-> 0, opens |-> 0, done |-> 0, err |-> 0]]

NoBackend == /\ impl = "kivybackend"
             /\ llm = [pass1 |-> {}, pass2 |-> {}]
             /\ llm_model = "None"
             /\ selected_rows = <<>>
             /\ cancel_event = FALSE
             /\ raised = "none"
             /\ NoRuns

InitFilter == /\ f_text \in FilterTexts
              /\ f_pos = 0
              /\ f_filter = NewFilter
              /\ f_out = <<>>
              /\ f_ret = <<>>
              /\ PureIdle
              /\ NoBackend

\* one call filter_token(token), token the next k characters of the stream
FeedToken(k) ==
    LET token == SubSeq(f_text, f_pos + 1, f_pos + k)
        r == filter_token(f_filter, token)
    IN  /\ f_pos' = f_pos + k
        /\ f_filter' = FilterOf(r)
        /\ f_out' = f_out \o r.out
        /\ f_ret' = r.out
        /\ UNCHANGED <<f_text, pvars, gvars, wvars>>

\* a call with the empty token: `if not token: return ""`
FeedEmpty ==
    LET r == filter_token(f_filter, <<>>)
    IN  /\ f_filter' = FilterOf(r)
        /\ f_out' = f_out \o r.out
        /\ f_ret' = r.out
        /\ UNCHANGED <<f_text, f_pos, pvars, gvars, wvars>>

NextFilter == \/ \E k \in 1..(Len(f_text) - f_pos) : FeedToken(k)
              \/ FeedEmpty

SpecFilter == InitFilter /\ [][NextFilter]_vars

(***************************************************************************)
(* The grouping loop and the per-date sort of _run_generation alone, on    *)
(* any rows.                                                               *)
(***************************************************************************)
\* every sequence of at most MaxGroupRows rows
GroupRowSeqs == UNION {[1..n -> Rows] : n \in 0..MaxGroupRows}

InitGroup == /\ FilterIdle
             /\ grp \in {NewGrouping(rows) : rows \in GroupRowSeqs}
             /\ ext = NewExtraction(<<>>)
             /\ NoBackend

\* `for r in rows:` to its end
Grouping ==
    /\ grp.pc = "grouping"
    /\ LET g == GroupRows(grp.rows)
       IN  grp' = [grp EXCEPT !.pc = "dates", !.grouped = g.grouped,
                              !.ordered_dates = g.ordered_dates]
    /\ UNCHANGED <<fvars, ext, gvars, wvars>>

\* one round of `for md in ordered_dates:` up to the items_text loop:
\* items = grouped[md]; items.sort(...); one entry per item, in that order
SortDate ==
    /\ grp.pc = "dates"
    /\ grp.gi < Len(grp.ordered_dates)
    /\ LET md == grp.ordered_dates[grp.gi + 1]
           items == SortBySection(grp.grouped[md])
       IN  grp' = [grp EXCEPT !.grouped = [@ EXCEPT ![md] = items],
                              !.rendered = Append(@, [md |-> md, items_text |-> items]),
                              !.gi = @ + 1]
    /\ UNCHANGED <<fvars, ext, gvars, wvars>>

NextGroup == Grouping \/ SortDate

SpecGroup == InitGroup /\ [][NextGroup]_vars

(***************************************************************************)
(* _extract_clean_summary alone, on any raw pass-1 text, in the files that *)
(* define it.                                                              *)
(***************************************************************************)
SummaryPieces == {<<"L">>, <<" ">>, <<"\n">>, OPEN_TAG, CLOSE_TAG}

\* "...reasoning...</think>\nLine1\nLine2\n" with one letter for each part
SummaryExample == <<"r">> \o CLOSE_TAG \o <<"\n", "A", "\n", "B", "\n">>

SummaryTexts == {SummaryExample} \cup
                {Concat(ps) : ps \in UNION {[1..n -> SummaryPieces] : n \in 0..MaxSummaryPieces}}

InitExtract == /\ FilterIdle
               /\ grp = NewGrouping(<<>>)
               /\ ext \in {NewExtraction(raw) : raw \in SummaryTexts}
               /\ impl \in {"kivybackend", "backend", "twopassqwen"}
               /\ llm = [pass1 |-> {}, pass2 |-> {}]
               /\ llm_model = "None"
               /\ selected_rows = <<>>
               /\ cancel_event = FALSE
               /\ raised = "none"
               /\ NoRuns

\* clean_summary = self._extract_clean_summary(raw_summary)
ExtractCleanSummary ==
    /\ ext.pc = "call"
    /\ ext' = [ext EXCEPT !.pc = "returned",
                          !.clean = IF impl = "twopassqwen"
                                    THEN extract_clean_summary_qwen(ext.raw)
                                    ELSE extract_clean_summary(ext.raw)]
    /\ UNCHANGED <<fvars, grp, gvars, wvars>>

NextExtract == ExtractCleanSummary

SpecExtract == InitExtract /\ [][NextExtract]_vars

(***************************************************************************)
(* generate_report and the worker thread _run_generation.                  *)
(***************************************************************************)
\* `if cancel_event and cancel_event.is_set()`; backend.py takes no event
CancelSet == impl = "kivybackend" /\ cancel_event

\* assignments to the locals of thread w
SetRun(w, r) == run' = [run EXCEPT ![w] = r]

\* PacificaAgendaApp._append_gen_text, a @mainthread method: the call is
\* left for the main thread
append_gen_text(u, w) == [u EXCEPT !.queue = Append(@, [fn |-> "append", w |-> w, text |-> <<>>])]

\* PacificaAgendaApp._token_cb, run by thread w
AppTokenCb(w) == IF cancel_event THEN ui ELSE append_gen_text(ui, w)

\* PacificaAgendaApp._done_cb, a @mainthread method, called by thread w
AppDoneCb(w, full_text) ==
    [ui EXCEPT !.queue = Append(@, [fn |-> "done", w |-> w, text |-> full_text])]

\* PacificaAgendaApp._err_cb, run by thread w
AppErrCb == [ui EXCEPT !.screen = "review"]

\* token callbacks that take effect newest first, as if each were handed to a
\* thread of its own
TokenCbNewestFirst(w, kind, text) ==
    IF run[w].cbs.token_cb
    THEN /\ sink' = [sink EXCEPT ![w].tokens =
                        <<[kind |-> kind, g |-> run[w].gi, text |-> text]>> \o @]
         /\ ui' = IF ui.app THEN AppTokenCb(w) ELSE ui
         /\ after_set' = [after_set EXCEPT ![w].tokens = @ + (IF cancel_event THEN 1 ELSE 0)]
    ELSE UNCHANGED <<sink, ui, after_set>>

\* token_cb(text), when the caller registered one
TokenCb(w, kind, text) ==
    IF run[w].cbs.token_cb
    THEN /\ sink' = [sink EXCEPT ![w].tokens =
                        Append(@, [kind |-> kind, g |-> run[w].gi, text |-> text])]
         /\ ui' = IF ui.app THEN AppTokenCb(w) ELSE ui
         /\ after_set' = [after_set EXCEPT ![w].tokens = @ + (IF cancel_event THEN 1 ELSE 0)]
    ELSE UNCHANGED <<sink, ui, after_set>>

\* the locals of thread w once exception e is raised at `at` inside the try
\* block: control goes to the except clause
Raised(w, e, at) == [run[w] EXCEPT !.pc = "except", !.exc = e, !.exc_at = at]

\* prompt rendering, the model call or the stream raises
Raise(w, at) == /\ \E e \in Exceptions : SetRun(w, Raised(w, e, at))
                /\ UNCHANGED <<sink, ui, calls, seen_at, after_set>>

\* token_cb(text) is invoked and raises; the callbacks of the Kivy app hand
\* their work to the main thread and return
TokenCbRaises(w, kind, text) ==
    /\ run[w].cbs.token_cb
    /\ ~ui.app
    /\ \E e \in Exceptions : SetRun(w, Raised(w, e, "token_cb"))
    /\ TokenCb(w, kind, text)

\* a cancellation check that leaves the loop with `break` where the code
\* returns: the thread goes on behind the loop
CancelBreak(w, where) ==
    /\ SetRun(w, [run[w] EXCEPT !.pc = CASE where = "pass1" -> "p1_done"
                                         [] where = "pass2" -> "separator"
                                         [] OTHER           -> "done"])
    /\ seen_at' = [seen_at EXCEPT ![w] = where]
    /\ UNCHANGED <<sink, ui, calls, after_set>>

\* `return` at a cancellation check that saw the event set
CancelReturn(w, where) ==
    /\ SetRun(w, [run[w] EXCEPT !.pc = "cancelled"])
    /\ seen_at' = [seen_at EXCEPT ![w] = where]
    /\ UNCHANGED <<sink, ui, calls, after_set>>

\* the thread of a generate_report call that raised nothing
StartThread(w) ==
    /\ \E c \in Callers :
          SetRun(w, [IdleRun EXCEPT !.pc = "start", !.cbs = c,
                                    !.rows = selected_rows])
    /\ raised' = "none"
    /\ UNCHANGED <<sink, ui, calls, seen_at, after_set>>

\* generate_report without `if not selected_rows: raise ValueError`
GenerateReportNoRowsTest(w) ==
    /\ run[w].pc = "idle"
    /\ \A v \in Workers : v < w => run[v].pc # "idle"
    /\ IF llm_model = "None"
       THEN /\ raised' = "RuntimeError"
            /\ UNCHANGED wvars
       ELSE StartThread(w)
    /\ UNCHANGED <<fvars, pvars, impl, llm, llm_model, selected_rows, cancel_event>>

\* generate_report without `if self.llm_model is None: raise RuntimeError`
GenerateReportNoModelTest(w) ==
    /\ run[w].pc = "idle"
    /\ \A v \in Workers : v < w => run[v].pc # "idle"
    /\ IF selected_rows = <<>>
       THEN /\ raised' = "ValueError"
            /\ UNCHANGED wvars
       ELSE StartThread(w)
    /\ UNCHANGED <<fvars, pvars, impl, llm, llm_model, selected_rows, cancel_event>>

\* generate_report: raises to the caller, or starts the thread
GenerateReport(w) ==
    /\ run[w].pc = "idle"
    /\ \A v \in Workers : v < w => run[v].pc # "idle"
    /\ IF selected_rows = <<>>
       THEN /\ raised' = "ValueError"
            /\ UNCHANGED wvars
       ELSE IF llm_model = "None"
       THEN /\ raised' = "RuntimeError"
            /\ UNCHANGED wvars
       ELSE StartThread(w)
    /\ UNCHANGED <<fvars, pvars, impl, llm, llm_model, selected_rows, cancel_event>>

\* the model finishes loading (load_llm_model_async)
LoadModel ==
    /\ llm_model = "None"
    /\ llm_model' = "loaded"
    /\ UNCHANGED <<fvars, pvars, impl, llm, selected_rows, cancel_event, raised, wvars>>

\* the caller sets the event it passed as cancel_event
SetCancel ==
    /\ impl = "kivybackend"
    /\ ~cancel_event
    /\ cancel_event' = TRUE
    /\ UNCHANGED <<fvars, pvars, impl, llm, llm_model, selected_rows, raised, wvars>>

\* gui_filter = GUITokenFilter(), the grouping loop, full_output = ""
StartRun(w) ==
    /\ run[w].pc = "start"
    /\ \/ LET g == GroupRows(run[w].rows)
          IN  /\ SetRun(w, [run[w] EXCEPT !.pc = "group_check",
                                          !.gui_filter = NewFilter,
                                          !.grouped = g.grouped,
                                          !.ordered_dates = g.ordered_dates,
                                          !.gi = 0,
                                          !.full_output = <<>>])
              /\ UNCHANGED <<sink, ui, calls, seen_at, after_set>>
       \/ Raise(w, "grouping")
    /\ UNCHANGED <<fvars, pvars, gvars>>

\* the date loop stopping one date early
GroupCheckOffByOne(w) ==
    /\ run[w].pc = "group_check"
    /\ IF run[w].gi < Len(run[w].ordered_dates) - 1
       THEN IF CancelSet
            THEN CancelReturn(w, "group")
            ELSE /\ SetRun(w, [run[w] EXCEPT !.pc = "build1",
                                             !.md = run[w].ordered_dates[run[w].gi + 1]])
                 /\ UNCHANGED <<sink, ui, calls, seen_at, after_set>>
       ELSE IF CancelSet
            THEN CancelReturn(w, "final")
            ELSE /\ SetRun(w, [run[w] EXCEPT !.pc = "done"])
                 /\ UNCHANGED <<sink, ui, calls, seen_at, after_set>>
    /\ UNCHANGED <<fvars, pvars, gvars>>

\* the date loop without the check at the top of its body
GroupCheckNoCancel(w) ==
    /\ run[w].pc = "group_check"
    /\ IF run[w].gi < Len(run[w].ordered_dates)
       THEN /\ SetRun(w, [run[w] EXCEPT !.pc = "build1",
                                        !.md = run[w].ordered_dates[run[w].gi + 1]])
            /\ UNCHANGED <<sink, ui, calls, seen_at, after_set>>
       ELSE IF CancelSet
            THEN CancelReturn(w, "final")
            ELSE /\ SetRun(w, [run[w] EXCEPT !.pc = "done"])
                 /\ UNCHANGED <<sink, ui, calls, seen_at, after_set>>
    /\ UNCHANGED <<fvars, pvars, gvars>>

\* a date loop that clears the event when it has seen it set, before it
\* returns
GroupCheckClears(w) ==
    /\ run[w].pc = "group_check"
    /\ IF CancelSet
       THEN /\ CancelReturn(w, IF run[w].gi < Len(run[w].ordered_dates)
                               THEN "group" ELSE "final")
            /\ cancel_event' = FALSE
            /\ UNCHANGED <<fvars, pvars, impl, llm, llm_model, selected_rows, raised>>
       ELSE /\ IF run[w].gi < Len(run[w].ordered_dates)
               THEN SetRun(w, [run[w] EXCEPT !.pc = "build1",
                                             !.md = run[w].ordered_dates[run[w].gi + 1]])
               ELSE SetRun(w, [run[w] EXCEPT !.pc = "done"])
            /\ UNCHANGED <<sink, ui, calls, seen_at, after_set>>
            /\ UNCHANGED <<fvars, pvars, gvars>>

\* `for md in ordered_dates:` with the check at the top of its body, and the
\* check behind the loop once the dates are exhausted
GroupCheck(w) ==
    /\ run[w].pc = "group_check"
    /\ IF run[w].gi < Len(run[w].ordered_dates)
       THEN IF CancelSet
            THEN CancelReturn(w, "group")
            ELSE /\ SetRun(w, [run[w] EXCEPT !.pc = "build1",
                                             !.md = run[w].ordered_dates[run[w].gi + 1]])
                 /\ UNCHANGED <<sink, ui, calls, seen_at, after_set>>
       ELSE IF CancelSet
            THEN CancelReturn(w, "final")
            ELSE /\ SetRun(w, [run[w] EXCEPT !.pc = "done"])
                 /\ UNCHANGED <<sink, ui, calls, seen_at, after_set>>
    /\ UNCHANGED <<fvars, pvars, gvars>>

\* the date the pass-1 prompt names: kivybackend.py formats the template
\* with md; the f-string of backend.py reads `date`, the variable the
\* grouping loop left at the last row's date
Pass1Date(w) ==
    IF impl = "kivybackend" THEN run[w].md
    ELSE run[w].rows[Len(run[w].rows)].date

\* items.sort(...), the items_text loop and the pass-1 prompt
BuildPass1(w) ==
    /\ run[w].pc = "build1"
    /\ \/ LET items == SortBySection(run[w].grouped[run[w].md])
          IN  /\ SetRun(w, [run[w] EXCEPT
                              !.pc = "open1",
                              !.grouped = [@ EXCEPT ![run[w].md] = items],
                              !.prompt = [pass |-> 1, md |-> Pass1Date(w),
                                          items_text |-> items, suffix |-> <<>>]])
              /\ UNCHANGED <<sink, ui, calls, seen_at, after_set>>
       \/ Raise(w, "prompt")
    /\ UNCHANGED <<fvars, pvars, gvars>>

\* the call log entry of a model call: its prompt and the stream it returned
Logged(prompt, reply) == [reply |-> reply] @@ prompt

\* a model call behind which raw_summary is not emptied: the pass-1 text of
\* one date group runs on into the next
OpenStreamKeepSummary(w, p, next) ==
    \/ /\ \E s \in (IF p = 1 THEN llm.pass1 ELSE llm.pass2) :
             /\ SetRun(w, [run[w] EXCEPT !.pc = next, !.reply = s, !.stream = s])
             /\ calls' = [calls EXCEPT ![w] = Append(calls[w], Logged(run[w].prompt, s))]
       /\ after_set' = [after_set EXCEPT ![w].opens = @ + (IF cancel_event THEN 1 ELSE 0)]
       /\ UNCHANGED <<sink, ui, seen_at>>
    \/ Raise(w, "open")

\* a create_chat_completion(..., stream=True) call of pass p
OpenStream(w, p, next) ==
    \/ /\ \E s \in (IF p = 1 THEN llm.pass1 ELSE llm.pass2) :
             /\ SetRun(w, [run[w] EXCEPT !.pc = next, !.reply = s, !.stream = s,
                                         !.raw_summary = IF p = 1 THEN <<>> ELSE @])
             /\ calls' = [calls EXCEPT ![w] = Append(calls[w], Logged(run[w].prompt, s))]
       /\ after_set' = [after_set EXCEPT ![w].opens = @ + (IF cancel_event THEN 1 ELSE 0)]
       /\ UNCHANGED <<sink, ui, seen_at>>
    \/ Raise(w, "open")

\* pass1_stream = self.llm_model.create_chat_completion(...)
OpenPass1(w) ==
    /\ run[w].pc = "open1"
    /\ OpenStream(w, 1, "p1_fetch")
    /\ UNCHANGED <<fvars, pvars, gvars>>

\* the stream loop without its cancellation check
FetchChunkNoCheck(w, where, token_pc, exhausted_pc) ==
    \/ IF run[w].stream = <<>>
       THEN /\ SetRun(w, [run[w] EXCEPT !.pc = exhausted_pc])
            /\ UNCHANGED <<sink, ui, calls, seen_at, after_set>>
       ELSE /\ SetRun(w, [run[w] EXCEPT !.pc = token_pc,
                                        !.chunk = Head(run[w].stream),
                                        !.stream = Tail(run[w].stream)])
            /\ UNCHANGED <<sink, ui, calls, seen_at, after_set>>
    \/ /\ run[w].stream # <<>>
       /\ Raise(w, "stream")

\* a stream loop that waits for a further chunk when the stream has none
\* left, where the code leaves the loop
FetchChunkWaits(w, where, token_pc, exhausted_pc) ==
    \/ /\ run[w].stream # <<>>
       /\ IF CancelSet
          THEN CancelReturn(w, where)
          ELSE /\ SetRun(w, [run[w] EXCEPT !.pc = token_pc,
                                           !.chunk = Head(run[w].stream),
                                           !.stream = Tail(run[w].stream)])
               /\ UNCHANGED <<sink, ui, calls, seen_at, after_set>>
    \/ /\ run[w].stream # <<>>
       /\ Raise(w, "stream")

\* `for chunk in stream:` and the cancellation check at the top of its body
FetchChunk(w, where, token_pc, exhausted_pc) ==
    \/ IF run[w].stream = <<>>
       THEN /\ SetRun(w, [run[w] EXCEPT !.pc = exhausted_pc])
            /\ UNCHANGED <<sink, ui, calls, seen_at, after_set>>
       ELSE IF CancelSet
       THEN CancelReturn(w, where)
       ELSE /\ SetRun(w, [run[w] EXCEPT !.pc = token_pc,
                                        !.chunk = Head(run[w].stream),
                                        !.stream = Tail(run[w].stream)])
            /\ UNCHANGED <<sink, ui, calls, seen_at, after_set>>
    \/ /\ run[w].stream # <<>>
       /\ Raise(w, "stream")

Pass1Fetch(w) ==
    /\ run[w].pc = "p1_fetch"
    /\ FetchChunk(w, "pass1", "p1_token", "p1_done")
    /\ UNCHANGED <<fvars, pvars, gvars>>

\* a pass-1 loop that hands token_cb the filtered token, as the pass-2 loop
\* of backend.py does
Pass1TokenFiltered(w) ==
    /\ run[w].pc = "p1_token"
    /\ LET token == run[w].chunk
           r == filter_token(run[w].gui_filter, token)
       IN  /\ SetRun(w, [run[w] EXCEPT !.pc = "p1_fetch",
                                       !.raw_summary = @ \o token,
                                       !.gui_filter = FilterOf(r)])
           /\ IF impl = "kivybackend" /\ r.out # <<>>
              THEN TokenCb(w, "pass1", r.out)
              ELSE UNCHANGED <<sink, ui, after_set>>
    /\ UNCHANGED <<fvars, pvars, gvars, calls, seen_at>>

\* the body of the pass-1 loop behind the check
Pass1Token(w) ==
    /\ run[w].pc = "p1_token"
    /\ LET token == run[w].chunk
       IN  \/ /\ SetRun(w, [run[w] EXCEPT !.pc = "p1_fetch",
                                          !.raw_summary = @ \o token])
              /\ IF impl = "kivybackend" /\ token # <<>>
                 THEN TokenCb(w, "pass1", token)
                 ELSE UNCHANGED <<sink, ui, after_set>>
           \/ /\ impl = "kivybackend" /\ token # <<>>
              /\ TokenCbRaises(w, "pass1", token)
    /\ UNCHANGED <<fvars, pvars, gvars, calls, seen_at>>

\* clean_summary = self._extract_clean_summary(raw_summary) and the pass-2 prompt
BuildPass2(w) ==
    /\ run[w].pc = "p1_done"
    /\ \/ LET clean_summary == extract_clean_summary(run[w].raw_summary)
          IN  /\ SetRun(w, [run[w] EXCEPT
                              !.pc = "open2",
                              !.prompt = [pass |-> 2, md |-> run[w].md,
                                          items_text |-> Strip(clean_summary),
                                          suffix |-> " /no_think"]])
              /\ UNCHANGED <<sink, ui, calls, seen_at, after_set>>
       \/ Raise(w, "prompt")
    /\ UNCHANGED <<fvars, pvars, gvars>>

\* pass2_stream = self.llm_model.create_chat_completion(...)
OpenPass2(w) ==
    /\ run[w].pc = "open2"
    /\ OpenStream(w, 2, "p2_fetch")
    /\ UNCHANGED <<fvars, pvars, gvars>>

Pass2Fetch(w) ==
    /\ run[w].pc = "p2_fetch"
    /\ FetchChunk(w, "pass2", "p2_token", "separator")
    /\ UNCHANGED <<fvars, pvars, gvars>>

\* kivybackend.py: token_cb(tok), then the filter builds the report
Pass2TokenKivy(w, tok) ==
    IF tok = <<>>
    THEN /\ SetRun(w, [run[w] EXCEPT !.pc = "p2_fetch"])
         /\ UNCHANGED <<sink, ui, after_set>>
    ELSE LET r == filter_token(run[w].gui_filter, tok)
         IN  /\ TokenCb(w, "pass2", tok)
             /\ SetRun(w, [run[w] EXCEPT !.pc = "p2_fetch",
                                         !.gui_filter = FilterOf(r),
                                         !.full_output = @ \o r.out])

\* backend.py: the filtered text goes to token_cb, and to the report inside
\* the same `if cleaned and token_cb:`
Pass2TokenTk(w, tok) ==
    IF tok = <<>>
    THEN /\ SetRun(w, [run[w] EXCEPT !.pc = "p2_fetch"])
         /\ UNCHANGED <<sink, ui, after_set>>
    ELSE LET r == filter_token(run[w].gui_filter, tok)
         IN  IF r.out # <<>> /\ run[w].cbs.token_cb
             THEN /\ TokenCb(w, "pass2", r.out)
                  /\ SetRun(w, [run[w] EXCEPT !.pc = "p2_fetch",
                                              !.gui_filter = FilterOf(r),
                                              !.full_output = @ \o r.out])
             ELSE /\ SetRun(w, [run[w] EXCEPT !.pc = "p2_fetch",
                                              !.gui_filter = FilterOf(r)])
                  /\ UNCHANGED <<sink, ui, after_set>>

\* the text the pass-2 loop hands to token_cb for chunk tok
Pass2Shown(w, tok) ==
    IF impl = "kivybackend" THEN tok ELSE filter_token(run[w].gui_filter, tok).out

\* a pass-2 loop that leaves the stream at an empty token (`break`) where
\* the code goes on to the next chunk
Pass2TokenBreakOnEmpty(w) ==
    /\ run[w].pc = "p2_token"
    /\ IF run[w].chunk = <<>>
       THEN /\ SetRun(w, [run[w] EXCEPT !.pc = "separator"])
            /\ UNCHANGED <<sink, ui, after_set>>
       ELSE IF impl = "kivybackend"
       THEN Pass2TokenKivy(w, run[w].chunk)
       ELSE Pass2TokenTk(w, run[w].chunk)
    /\ UNCHANGED <<fvars, pvars, gvars, calls, seen_at>>

\* the body of the pass-2 loop behind the check
Pass2Token(w) ==
    /\ run[w].pc = "p2_token"
    /\ \/ IF impl = "kivybackend"
          THEN Pass2TokenKivy(w, run[w].chunk)
          ELSE Pass2TokenTk(w, run[w].chunk)
       \/ /\ Pass2Shown(w, run[w].chunk) # <<>>
          /\ TokenCbRaises(w, "pass2", Pass2Shown(w, run[w].chunk))
    /\ UNCHANGED <<fvars, pvars, gvars, calls, seen_at>>

\* a separator that reaches the token callback only: the report buffer is
\* left as it was
SeparatorSinkOnly(w) ==
    /\ run[w].pc = "separator"
    /\ \/ /\ TokenCb(w, "sep", SEPARATOR)
          /\ SetRun(w, [run[w] EXCEPT !.pc = "group_check",
                                      !.gi = @ + 1])
       \/ TokenCbRaises(w, "sep", SEPARATOR)
    /\ UNCHANGED <<fvars, pvars, gvars, calls, seen_at>>

\* `if token_cb: token_cb("\n\n")`, `full_output += "\n\n"`, next date
Separator(w) ==
    /\ run[w].pc = "separator"
    /\ \/ /\ TokenCb(w, "sep", SEPARATOR)
          /\ SetRun(w, [run[w] EXCEPT !.pc = "group_check",
                                      !.full_output = @ \o SEPARATOR,
                                      !.gi = @ + 1])
       \/ TokenCbRaises(w, "sep", SEPARATOR)
    /\ UNCHANGED <<fvars, pvars, gvars, calls, seen_at>>

\* `if done_cb: done_cb(full_output, ordered_dates)`
Done(w) ==
    /\ run[w].pc = "done"
    /\ \/ SetRun(w, [run[w] EXCEPT !.pc = "completed"])
       \/ /\ run[w].cbs.done_cb
          /\ ~ui.app
          /\ \E e \in Exceptions : SetRun(w, Raised(w, e, "done_cb"))
    /\ IF run[w].cbs.done_cb
       THEN /\ sink' = [sink EXCEPT ![w].done =
                           Append(@, [text |-> run[w].full_output,
                                      dates |-> run[w].ordered_dates])]
            /\ ui' = IF ui.app THEN AppDoneCb(w, run[w].full_output) ELSE ui
            /\ after_set' = [after_set EXCEPT ![w].done = @ + (IF cancel_event THEN 1 ELSE 0)]
       ELSE UNCHANGED <<sink, ui, after_set>>
    /\ UNCHANGED <<fvars, pvars, gvars, calls, seen_at>>

\* an except clause inside the date loop: the error is reported and the run
\* goes on with the next date
ExceptContinue(w) ==
    /\ run[w].pc = "except"
    /\ SetRun(w, [run[w] EXCEPT !.pc = "group_check", !.gi = @ + 1])
    /\ IF run[w].cbs.err_cb
       THEN /\ sink' = [sink EXCEPT ![w].err = Append(@, run[w].exc)]
            /\ ui' = IF ui.app THEN AppErrCb ELSE ui
            /\ after_set' = [after_set EXCEPT ![w].err = @ + (IF cancel_event THEN 1 ELSE 0)]
       ELSE UNCHANGED <<sink, ui, after_set>>
    /\ UNCHANGED <<fvars, pvars, gvars, calls, seen_at>>

\* `except Exception as exc: if err_cb: err_cb(exc)`
Except(w) ==
    /\ run[w].pc = "except"
    /\ SetRun(w, [run[w] EXCEPT !.pc = "failed"])
    /\ IF run[w].cbs.err_cb
       THEN /\ sink' = [sink EXCEPT ![w].err = Append(@, run[w].exc)]
            /\ ui' = IF ui.app THEN AppErrCb ELSE ui
            /\ after_set' = [after_set EXCEPT ![w].err = @ + (IF cancel_event THEN 1 ELSE 0)]
       ELSE UNCHANGED <<sink, ui, after_set>>
    /\ UNCHANGED <<fvars, pvars, gvars, calls, seen_at>>

\* one step of thread w
WorkerStep(w) ==
    \/ StartRun(w)
    \/ GroupCheck(w)
    \/ BuildPass1(w)
    \/ OpenPass1(w)
    \/ Pass1Fetch(w)
    \/ Pass1Token(w)
    \/ BuildPass2(w)
    \/ OpenPass2(w)
    \/ Pass2Fetch(w)
    \/ Pass2Token(w)
    \/ Separator(w)
    \/ Done(w)
    \/ Except(w)

\* one generation run: either backend, any caller, any model output
Init == /\ FilterIdle
        /\ PureIdle
        /\ impl \in {"kivybackend", "backend"}
        /\ llm = [pass1 |-> P1Scripts, pass2 |-> P2Scripts]
        /\ llm_model = "None"
        /\ selected_rows \in RunRowSeqs
        /\ cancel_event = FALSE
        /\ raised = "none"
        /\ NoRuns

Next == \/ LoadModel
        \/ SetCancel
        \/ GenerateReport(1)
        \/ WorkerStep(1)

Spec == Init /\ [][Next]_vars

(***************************************************************************)
(* Several generate_report calls on one backend, all given the same event. *)
(***************************************************************************)
InitCalls == /\ FilterIdle
             /\ PureIdle
             /\ impl \in {"kivybackend", "backend"}
             /\ llm = [pass1 |-> { << <<"S">> >> }, pass2 |-> { << <<"X">>, <<"Y">> >> }]
             /\ llm_model = "None"
             /\ selected_rows \in {rs \in RunRowSeqs : Len(rs) = 1}
             /\ cancel_event = FALSE
             /\ raised = "none"
             /\ NoRuns

NextCalls == \/ LoadModel
             \/ SetCancel
             \/ \E w \in Workers : GenerateReport(w)
             \/ \E w \in Workers : WorkerStep(w)

SpecCalls == InitCalls /\ [][NextCalls]_vars

(***************************************************************************)
(* The Kivy app in front of kivybackend.py: every generation is given the  *)
(* app's one generation_cancel_event and the app's three callbacks.        *)
(***************************************************************************)
AppCallbacks == [token_cb |-> TRUE, done_cb |-> TRUE, err_cb |-> TRUE]

InitFrontend == /\ FilterIdle
                /\ PureIdle
                /\ impl = "kivybackend"
                /\ llm = [pass1 |-> { << <<"S">> >> }, pass2 |-> { << <<"X">> >> }]
                /\ llm_model = "None"
                /\ selected_rows \in {rs \in RunRowSeqs : Len(rs) = 1}
                /\ cancel_event = FALSE
                /\ raised = "none"
                /\ run = [w \in Workers |-> IdleRun]
                /\ ui = [IdleUi EXCEPT !.app = TRUE]
                /\ sink = [w \in Workers |-> [tokens |-> <<>>, done |-> <<>>, err |-> <<>>]]
                /\ calls = [w \in Workers |-> <<>>]
                /\ seen_at = [w \in Workers |-> "none"]
                /\ after_set = [w \in Workers |-> [tokens |-> 0, opens |-> 0, done |-> 0, err |-> 0]]

\* PacificaAgendaApp._start_generation, the Generate button of the review
\* screen: the output is emptied, Save disabled, the event cleared, and
\* generate_report starts thread w or raises RuntimeError, which is caught
StartGeneration(w) ==
    /\ ui.app
    /\ ui.screen = "review"
    /\ ~ui.popup
    /\ selected_rows # <<>>
    /\ run[w].pc = "idle"
    /\ \A v \in Workers : v < w => run[v].pc # "idle"
    /\ cancel_event' = FALSE
    /\ IF llm_model = "None"
       THEN /\ raised' = "RuntimeError"
            /\ ui' = [ui EXCEPT !.gen_output = <<>>, !.save_disabled = TRUE,
                                !.screen = "review", !.current = 0]
            /\ UNCHANGED run
       ELSE /\ raised' = "none"
            /\ ui' = [ui EXCEPT !.gen_output = <<>>, !.save_disabled = TRUE,
                                !.screen = "generation", !.current = w]
            /\ SetRun(w, [IdleRun EXCEPT !.pc = "start", !.cbs = AppCallbacks,
                                         !.rows = selected_rows])
    /\ UNCHANGED <<fvars, pvars, impl, llm, llm_model, selected_rows,
                   sink, calls, seen_at, after_set>>

\* PacificaAgendaApp._cancel_generation, the Back button of the generation
\* screen: back to the review screen, or the confirmation popup while Save
\* is disabled
CancelGeneration ==
    /\ ui.app
    /\ ui.screen = "generation"
    /\ ~ui.popup
    /\ ui' = IF ~ui.save_disabled THEN [ui EXCEPT !.screen = "review"]
             ELSE [ui EXCEPT !.popup = TRUE]
    /\ UNCHANGED <<fvars, pvars, gvars, run, sink, calls, seen_at, after_set>>

\* confirm_cancel, the "Yes, Cancel" button: the event is set. The
\* generation it cancels is the one on the screen, if Save is still disabled
ConfirmCancel ==
    /\ ui.popup
    /\ cancel_event' = TRUE
    /\ ui' = [ui EXCEPT !.popup = FALSE, !.screen = "review",
                        !.confirmed = IF ui.current # 0 /\ ui.save_disabled
                                      THEN @ \cup {ui.current} ELSE @]
    /\ UNCHANGED <<fvars, pvars, impl, llm, llm_model, selected_rows, raised,
                   run, sink, calls, seen_at, after_set>>

\* the "No, Continue Generating" button
DismissPopup ==
    /\ ui.popup
    /\ ui' = [ui EXCEPT !.popup = FALSE]
    /\ UNCHANGED <<fvars, pvars, gvars, run, sink, calls, seen_at, after_set>>

\* what thread w has done to the widgets, recorded if the user had confirmed
\* its cancellation before
Late(w, what) == IF w \in ui.confirmed THEN {[w |-> w, what |-> x] : x \in what} ELSE {}

\* the main thread runs the oldest waiting call: the body of
\* _append_gen_text, or the body of _done_cb
MainThread ==
    /\ ui.queue # <<>>
    /\ LET call == Head(ui.queue)
       IN  ui' = IF call.fn = "append"
                 THEN [ui EXCEPT !.queue = Tail(@),
                                 !.gen_output = Append(@, call.w),
                                 !.late = @ \cup Late(call.w, {"append"})]
                 ELSE IF cancel_event
                 THEN [ui EXCEPT !.queue = Tail(@)]
                 ELSE [append_gen_text(ui, call.w) EXCEPT
                                 !.queue = Tail(@),
                                 !.generated_report_text = call.text,
                                 !.save_disabled = FALSE,
                                 !.late = @ \cup Late(call.w, {"report", "save"})]
    /\ UNCHANGED <<fvars, pvars, gvars, run, sink, calls, seen_at, after_set>>

NextFrontend == \/ LoadModel
                \/ \E w \in Workers : StartGeneration(w)
                \/ CancelGeneration
                \/ ConfirmCancel
                \/ DismissPopup
                \/ MainThread
                \/ \E w \in Workers : WorkerStep(w)

SpecFrontend == InitFrontend /\ [][NextFrontend]_vars

(***************************************************************************)
(* The thinking-block filter (SpecFilter).                                 *)
(***************************************************************************)
\* has the filter been passed the whole of its text
FilterAtEnd == f_pos = Len(f_text)

\* a text that contains neither marker
CleanText(t) == Find(t, OPEN_TAG) = -1 /\ Find(t, CLOSE_TAG) = -1

\* C1: for the input "A<think>B</think>C", fed in any chunking, the values
\* filter_token returned add up to "AC".
C1_ChunkingIndependent ==
    (f_text = <<"A">> \o OPEN_TAG \o <<"B">> \o CLOSE_TAG \o <<"C">> /\ FilterAtEnd)
        => f_out = <<"A", "C">>

\* C9: for a text without markers, whatever its split into calls, the
\* values returned so far add up to the part of the text passed so far.
C9_CleanIdentity ==
    CleanText(f_text) => f_out = SubSeq(f_text, 1, f_pos)

\* C9 witness: a clean text that holds the first character of a marker has
\* been passed whole, in more than one call.
C9_Witness ==
    /\ CleanText(f_text)
    /\ Len(f_text) = 3
    /\ f_text[2] = "<"
    /\ FilterAtEnd
    /\ f_ret # f_out
    /\ f_ret # <<>>

\* C10: for the input "A<think>B", whose suppressed span never closes, the
\* values filter_token returned add up to "A": "B" is never emitted.
C10_Unterminated ==
    (f_text = <<"A">> \o OPEN_TAG \o <<"B">> /\ FilterAtEnd) => f_out = <<"A">>

\* The half of C10 the code keeps: a call made inside a suppressed span of a
\* text without closing marker returns the empty text.
InsideSpanSilent ==
    [][(f_filter.in_think /\ Find(f_text, CLOSE_TAG) = -1) => f_ret' = <<>>]_vars

(***************************************************************************)
(* One generation run (Spec).                                              *)
(***************************************************************************)
\* the text the token callback was given in calls of the kinds `kinds`
RECURSIVE SinkText(_, _)
SinkText(tokens, kinds) ==
    IF tokens = <<>> THEN <<>>
    ELSE (IF Head(tokens).kind \in kinds THEN Head(tokens).text ELSE <<>>)
         \o SinkText(Tail(tokens), kinds)

\* C2: once the event is set the worker invokes no token, done or error
\* callback and opens no model stream.
C2_NothingAfterSet ==
    \A w \in Workers :
        after_set[w] = [tokens |-> 0, opens |-> 0, done |-> 0, err |-> 0]

\* C2, amended: once the event is set the worker returns at its next
\* cancellation check; up to that check it invokes at most two token
\* callbacks and opens at most two streams (three of both together), and it
\* invokes the done callback and the error callback at most once each.
C2_StopsAtNextCheck ==
    \A w \in Workers :
        /\ after_set[w].tokens <= 2
        /\ after_set[w].opens <= 2
        /\ after_set[w].tokens + after_set[w].opens <= 3
        /\ after_set[w].done <= 1
        /\ after_set[w].err <= 1
        /\ seen_at[w] # "none" => run[w].pc = "cancelled"

\* C2 witness: the worker went on after the event was set, with two token
\* callbacks and a stream opened, and then saw the event at a check.
C2_Witness ==
    /\ after_set[1].tokens = 2
    /\ after_set[1].opens = 1
    /\ seen_at[1] # "none"

\* C3: once a check in a streaming loop has seen the event set, the worker
\* reads no further chunk, opens no stream and invokes no callback.
C3_SilentAfterSeen ==
    [][\A w \in Workers :
          seen_at[w] \in {"pass1", "pass2"}
              => /\ sink'[w] = sink[w]
                 /\ calls'[w] = calls[w]
                 /\ run'[w] = run[w]]_vars

\* C3 witness: the event was seen in a pass-2 loop after token callbacks,
\* with chunks of the stream still unread.
C3_Witness ==
    /\ seen_at[1] = "pass2"
    /\ sink[1].tokens # <<>>
    /\ run[1].stream # <<>>
    /\ sink[1].done = <<>>
    /\ sink[1].err = <<>>

\* C4: the pass-2 stream of every date group is filtered from a fresh
\* filter state (outside a span, empty buffer).
C4_FreshFilterPerGroup ==
    \A w \in Workers : run[w].pc = "open2" => run[w].gui_filter = NewFilter

\* C5: in a run that has raised nothing, the pass-2 text and separators the
\* token callback is given are exactly the text appended to the report buffer.
C5_SinkIsReport ==
    \A w \in Workers :
        (run[w].cbs.token_cb /\ run[w].exc = "none")
            => SinkText(sink[w].tokens, {"pass2", "sep"}) = run[w].full_output

\* the dates of rows, each once, in the order of their first rows
FirstSeenOrder(ds, rows) ==
    /\ {ds[i] : i \in 1..Len(ds)} = {rows[i].date : i \in 1..Len(rows)}
    /\ \A i, j \in 1..Len(ds) : i < j =>
          \E k \in 1..Len(rows) :
              /\ rows[k].date = ds[i]
              /\ \A m \in 1..k : rows[m].date # ds[j]

\* C6: the done callback is invoked at most once, only when every date
\* group has had both of its streams read to the end, with the whole report
\* buffer and the dates in first-seen order; a run that completes with a
\* done callback registered has invoked it.
C6_DoneOnceAtEnd ==
    \A w \in Workers :
        /\ Len(sink[w].done) <= 1
        /\ sink[w].done # <<>> =>
              /\ run[w].pc = "completed" \/ run[w].exc_at = "done_cb"
              /\ run[w].gi = Len(run[w].ordered_dates)
              /\ Len(calls[w]) = 2 * Len(run[w].ordered_dates)
              /\ run[w].stream = <<>>
              /\ sink[w].done[1].text = run[w].full_output
              /\ sink[w].done[1].dates = run[w].ordered_dates
              /\ FirstSeenOrder(sink[w].done[1].dates, run[w].rows)
        /\ (run[w].pc = "completed" /\ run[w].cbs.done_cb) =>
              (Len(sink[w].done) = 1 /\ sink[w].err = <<>>)
        /\ (run[w].pc = "cancelled" \/ run[w].exc_at \notin {"none", "done_cb"}) =>
              sink[w].done = <<>>

\* C6 witness: a run over two date groups has completed and handed over a
\* report.
C6_Witness ==
    /\ run[1].pc = "completed"
    /\ Len(run[1].ordered_dates) = 2
    /\ Len(sink[1].done) = 1
    /\ Len(sink[1].done[1].text) > 2 * Len(SEPARATOR)

\* where prompt building, stream opening and token consumption raise
PipelineFailure == {"grouping", "prompt", "open", "stream", "token_cb"}

\* C7: from the moment an exception is raised while a prompt is built, a
\* stream is opened or tokens are consumed, no stream is opened and no token
\* or done callback is invoked, and the error callback is invoked once, with
\* that exception.
C7_ErrorStopsRun ==
    /\ [][\A w \in Workers :
             run[w].exc_at \in PipelineFailure
                 => /\ calls'[w] = calls[w]
                    /\ sink'[w].tokens = sink[w].tokens
                    /\ sink'[w].done = sink[w].done
                    /\ run'[w].exc = run[w].exc]_vars
    /\ [](\A w \in Workers :
             run[w].exc_at \in PipelineFailure
                 => /\ sink[w].done = <<>>
                    /\ run[w].pc \in {"except", "failed"}
                    /\ run[w].pc = "except" => sink[w].err = <<>>
                    /\ run[w].pc = "failed" =>
                          sink[w].err = (IF run[w].cbs.err_cb THEN <<run[w].exc>> ELSE <<>>))

\* C7 witness: a stream raised after token callbacks of the second date
\* group, and the error callback got the exception.
C7_Witness ==
    /\ run[1].pc = "failed"
    /\ run[1].exc_at = "stream"
    /\ sink[1].err = <<"KeyError">>
    /\ run[1].gi = 1
    /\ run[1].stream # <<>>
    /\ sink[1].tokens # <<>>

(***************************************************************************)
(* Several calls (SpecCalls).                                              *)
(***************************************************************************)
\* thread w holds a model stream it has not read to the end or left
Consuming(w) == run[w].pc \in {"p1_fetch", "p1_token", "p2_fetch", "p2_token"}

\* C8: at most one worker consumes model streams at any time.
C8_OneRunInFlight ==
    Cardinality({w \in Workers : Consuming(w)}) <= 1

(***************************************************************************)
(* Grouping and sorting (SpecGroup).                                       *)
(***************************************************************************)
\* the rows of date d, in input order
RowsOfDate(rows, d) == SelectSeq(rows, LAMBDA r : r.date = d)

\* the rows of section key k, in the order of `items`
RowsOfSection(items, k) == SelectSeq(items, LAMBDA r : r.section = k)

\* C11: for every sequence of rows, the date keys the grouping loop produces
\* are the distinct dates of the input in the order of their first
\* appearance, and the date loop visits them in that order.
C11_FirstAppearanceOrder ==
    grp.pc = "dates" =>
        /\ FirstSeenOrder(grp.ordered_dates, grp.rows)
        /\ Len(grp.rendered) = grp.gi
        /\ \A i \in 1..grp.gi : grp.rendered[i].md = grp.ordered_dates[i]

\* C11 witness: the first date comes back after another date, both date
\* groups have been visited, and first-seen order is not sorted order.
C11_Witness ==
    /\ grp.pc = "dates"
    /\ Len(grp.rows) = 3
    /\ grp.rows[1].date = "25-Aug"
    /\ grp.rows[2].date = "10-Sep"
    /\ grp.rows[3].date = "25-Aug"
    /\ grp.gi = 2

\* C12: the rows rendered for a date are the rows of that date, ascending by
\* section key (a missing section is the empty key), rows of equal key in
\* their input order.
C12_StableSectionSort ==
    \A i \in 1..Len(grp.rendered) :
        LET given == RowsOfDate(grp.rows, grp.rendered[i].md)
            out == grp.rendered[i].items_text
        IN  /\ Len(out) = Len(given)
            /\ \A a, b \in 1..Len(out) :
                  a < b => ~StrLess(out[b].section, out[a].section)
            /\ \A k \in Sections : RowsOfSection(out, k) = RowsOfSection(given, k)

\* C12 witness: three rows of one date were rendered in another order than
\* given, two of them with the same section key and different items.
C12_Witness ==
    /\ Len(grp.rendered) = 1
    /\ Len(grp.rendered[1].items_text) = 3
    /\ grp.rendered[1].items_text # grp.rows
    /\ \E a, b \in 1..3 :
          /\ a < b
          /\ grp.rows[a].section = grp.rows[b].section
          /\ grp.rows[a].item # grp.rows[b].item
    /\ \E a \in 1..3 : grp.rows[a].section = <<>>

(***************************************************************************)
(* Clean-summary extraction (SpecExtract).                                 *)
(***************************************************************************)
\* the characters of t that are not white space, in order
Ink(t) == SelectSeq(t, LAMBDA c : ~IsSpace(c))

\* the position in t of its k-th character that is not white space
InkAt(t, k) ==
    CHOOSE i \in 1..Len(t) :
        /\ ~IsSpace(t[i])
        /\ Cardinality({j \in 1..i : ~IsSpace(t[j])}) = k

\* the white space of t between its k-th and its next inked character
Gap(t, k) == SubSeq(t, InkAt(t, k) + 1, InkAt(t, k + 1) - 1)

\* out is src with every line stripped and the blank lines dropped, joined
\* by single line breaks: the same inked characters; no white space at
\* either end; white space inside a line kept; every run of white space
\* that holds a line break replaced by one line break
TidyCopy(out, src) ==
    LET n == Len(Ink(src))
    IN  /\ Ink(out) = Ink(src)
        /\ n = 0 => out = <<>>
        /\ n > 0 => (InkAt(out, 1) = 1 /\ InkAt(out, n) = Len(out))
        /\ \A k \in 1..(n - 1) :
              Gap(out, k) = IF \E i \in 1..Len(Gap(src, k)) : Gap(src, k)[i] = "\n"
                            THEN <<"\n">>
                            ELSE Gap(src, k)

\* the text behind the first closing marker of raw
AfterMarker(raw) == Slice(raw, Find(raw, CLOSE_TAG) + Len(CLOSE_TAG))

\* C13: when the raw text holds "</think>", _extract_clean_summary returns
\* the text behind the first closing marker with every line stripped and the
\* blank lines dropped, joined by single line breaks; the example
\* "r</think>\nA\nB\n" gives "A\nB".
C13_TextAfterMarker ==
    (ext.pc = "returned" /\ Find(ext.raw, CLOSE_TAG) # -1) =>
        /\ TidyCopy(ext.clean, AfterMarker(ext.raw))
        /\ ext.raw = SummaryExample => ext.clean = <<"A", "\n", "B">>

\* What the two backends keep of C13: their _extract_clean_summary does as
\* C13 says.
TextAfterMarkerInBackends ==
    impl \in {"kivybackend", "backend"} => C13_TextAfterMarker

\* src with its blank lines removed and nothing else changed
DropBlankLines(src) ==
    JoinLines(SelectSeq(SplitLines(src, <<>>), LAMBDA ln : Ink(ln) # <<>>))

\* C14: when the raw text holds no closing marker, _extract_clean_summary of
\* the backends returns the whole text with its blank lines removed and
\* nothing else changed.
C14_WholeTextKept ==
    (ext.pc = "returned" /\ impl # "twopassqwen" /\ Find(ext.raw, CLOSE_TAG) = -1)
        => ext.clean = DropBlankLines(ext.raw)

\* C14, amended: when the raw text holds no closing marker,
\* _extract_clean_summary of the backends returns the whole text with every
\* line stripped and the blank lines removed; nothing else is cut, an
\* unmatched opening marker included.
C14_WholeTextTidied ==
    (ext.pc = "returned" /\ impl # "twopassqwen" /\ Find(ext.raw, CLOSE_TAG) = -1)
        => TidyCopy(ext.clean, ext.raw)

\* C14 witness: a text with an unmatched opening marker, a blank line and an
\* indented line came back with the marker kept and the rest tidied.
C14_Witness ==
    /\ ext.pc = "returned"
    /\ impl = "kivybackend"
    /\ ext.raw = OPEN_TAG \o <<"\n", "\n", " ", "L">>
    /\ ext.clean = OPEN_TAG \o <<"\n", "L">>

(***************************************************************************)
(* generate_report in the caller's thread (Spec).                          *)
(***************************************************************************)
\* thread w was never started and nothing was done on its behalf
Untouched(w) ==
    /\ run[w] = IdleRun
    /\ calls[w] = <<>>
    /\ sink[w] = [tokens |-> <<>>, done |-> <<>>, err |-> <<>>]

\* C15: generate_report with an empty row sequence raises ValueError to its
\* caller; no thread is started, no stream opened and no callback invoked.
C15_EmptyRowsRaise ==
    /\ [](selected_rows = <<>> =>
             /\ raised \in {"none", "ValueError"}
             /\ \A w \in Workers : Untouched(w))
    /\ [][(selected_rows = <<>> /\ GenerateReport(1)) =>
             (raised' = "ValueError" /\ UNCHANGED wvars)]_vars

\* C15 witness: the call was made with the model loaded and no rows, and it
\* raised.
C15_Witness ==
    /\ selected_rows = <<>>
    /\ llm_model = "loaded"
    /\ raised = "ValueError"
    /\ Untouched(1)

\* C16: generate_report with rows and no model loaded raises RuntimeError to
\* its caller and starts nothing; a thread is started only with rows and
\* with the model loaded.
C16_NoModelRaise ==
    /\ [](llm_model = "None" =>
             /\ selected_rows # <<>> => raised \in {"none", "RuntimeError"}
             /\ \A w \in Workers : Untouched(w))
    /\ [](\A w \in Workers :
             run[w].pc # "idle" => (run[w].rows # <<>> /\ llm_model = "loaded"))
    /\ [][(selected_rows # <<>> /\ llm_model = "None" /\ GenerateReport(1)) =>
             (raised' = "RuntimeError" /\ UNCHANGED wvars)]_vars

\* C16 witness: the call was made with rows before the model was loaded,
\* and it raised.
C16_Witness ==
    /\ selected_rows # <<>>
    /\ llm_model = "None"
    /\ raised = "RuntimeError"
    /\ Untouched(1)

(***************************************************************************)
(* End to end (Spec).                                                      *)
(***************************************************************************)
\* a whole text with its thinking spans removed
ThinkFiltered(t) == FilterLoop(t, FALSE, <<>>).out

\* C17: a completed run over rows of one date has handed the token callback
\* exactly the think-filtered text of the pass-2 response followed by
\* "\n\n", and the done callback that text and the one date.
C17_EndToEnd ==
    \A w \in Workers :
        (/\ run[w].pc = "completed"
         /\ Len(run[w].ordered_dates) = 1
         /\ run[w].cbs.token_cb
         /\ run[w].cbs.done_cb) =>
            LET text == ThinkFiltered(Concat(run[w].reply)) \o SEPARATOR
            IN  /\ SinkText(sink[w].tokens, {"pass1", "pass2", "sep"}) = text
                /\ sink[w].done = <<[text |-> text, dates |-> <<run[w].rows[1].date>>]>>

\* What backend.py keeps of C17 when the model's chunks hold whole markers.
EndToEndInBackendPy == impl = "backend" => C17_EndToEnd

(***************************************************************************)
(* The order of the model calls of one run (Spec).                         *)
(***************************************************************************)
\* the streams thread w has opened for the date group it is in
OpenedInGroup(w) ==
    CASE run[w].pc \in {"start", "group_check", "build1", "open1",
                        "done", "completed"}                        -> {0}
      [] run[w].pc \in {"p1_fetch", "p1_token", "p1_done", "open2"} -> {1}
      [] run[w].pc \in {"p2_fetch", "p2_token", "separator"}        -> {2}
      [] OTHER                                                      -> {0, 1, 2}

\* C18: the model calls of a run alternate pass 1, pass 2, date group by
\* date group in the order of the dates; a stream is opened only when the
\* stream before it has been read to its end, so that at most one stream is
\* being read; a completed run over N date groups has opened 2N streams.
C18_OneStreamAtATime ==
    /\ [](\A w \in Workers :
             /\ run[w].pc # "idle" =>
                   Len(calls[w]) - 2 * run[w].gi \in OpenedInGroup(w)
             /\ run[w].pc = "completed" =>
                   Len(calls[w]) = 2 * Len(run[w].ordered_dates)
             /\ \A k \in 1..Len(calls[w]) :
                   LET md == run[w].ordered_dates[(k + 1) \div 2]
                   IN  IF k % 2 = 1
                       THEN /\ calls[w][k].pass = 1
                            /\ calls[w][k].items_text = run[w].grouped[md]
                       ELSE /\ calls[w][k].pass = 2
                            /\ calls[w][k].md = md)
    /\ [][\A w \in Workers :
             calls'[w] # calls[w] =>
                 /\ run[w].stream = <<>>
                 /\ Len(calls'[w]) = Len(calls[w]) + 1
                 /\ SubSeq(calls'[w], 1, Len(calls[w])) = calls[w]]_vars

\* C18 witness: a run over two date groups has completed with four model
\* calls, after streams of more than one chunk.
C18_Witness ==
    /\ run[1].pc = "completed"
    /\ Len(run[1].ordered_dates) = 2
    /\ Len(calls[1]) = 4
    /\ Len(sink[1].tokens) > 4

(***************************************************************************)
(* Cancellation at the start of a date group (Spec).                       *)
(***************************************************************************)
\* thread w is at the top of the date loop with a date left
AtGroupStart(w) ==
    run[w].pc = "group_check" /\ run[w].gi < Len(run[w].ordered_dates)

\* C19: a worker that reaches the start of a date group with the event set
\* returns there: it opens no stream for this or a later group and invokes
\* no callback from then on; with the event set before the first group it
\* has made no model call at all.
C19_CancelAtGroupStart ==
    /\ [][\A w \in Workers :
             (AtGroupStart(w) /\ cancel_event /\ run'[w] # run[w]) =>
                 /\ run'[w].pc = "cancelled"
                 /\ seen_at'[w] = "group"
                 /\ calls'[w] = calls[w]
                 /\ sink'[w] = sink[w]]_vars
    /\ [][\A w \in Workers :
             seen_at[w] = "group" =>
                 /\ run'[w] = run[w]
                 /\ calls'[w] = calls[w]
                 /\ sink'[w] = sink[w]]_vars
    /\ [](\A w \in Workers :
             seen_at[w] = "group" =>
                 /\ Len(calls[w]) = 2 * run[w].gi
                 /\ sink[w].done = <<>>
                 /\ sink[w].err = <<>>
                 /\ run[w].gi = 0 => (calls[w] = <<>> /\ sink[w].tokens = <<>>))

\* C19 witness: the event was seen at the start of the second date group,
\* after the two streams of the first group and its token callbacks.
C19_Witness ==
    /\ seen_at[1] = "group"
    /\ run[1].gi = 1
    /\ Len(run[1].ordered_dates) = 2
    /\ Len(calls[1]) = 2
    /\ sink[1].tokens # <<>>
    /\ sink[1].done = <<>>

(***************************************************************************)
(* The pass-1 tokens of kivybackend.py (Spec).                             *)
(***************************************************************************)
\* the pass-1 text the token callback of thread w was given for date group g
Pass1SinkText(w, g) ==
    SinkText(SelectSeq(sink[w].tokens, LAMBDA t : t.g = g), {"pass1"})

RECURSIVE FilterChunks(_, _, _)
FilterChunks(f, chunks, out) ==
    IF chunks = <<>> THEN [f |-> f, out |-> out]
    ELSE IF Head(chunks) = <<>> THEN FilterChunks(f, Tail(chunks), out)
    ELSE LET r == filter_token(f, Head(chunks))
         IN  FilterChunks(FilterOf(r), Tail(chunks), out \o r.out)

\* the filter of thread w behind its first n date groups, and the filtered
\* pass-2 text of each of them followed by the separator
RECURSIVE GroupsFiltered(_, _)
GroupsFiltered(w, n) ==
    IF n = 0 THEN [f |-> NewFilter, out |-> <<>>]
    ELSE LET before == GroupsFiltered(w, n - 1)
             group == FilterChunks(before.f, calls[w][2 * n].reply, <<>>)
         IN  [f |-> group.f, out |-> before.out \o group.out \o SEPARATOR]

\* the tokens of kind k the callback of thread w was given for group index g
SinkCount(w, k, g) ==
    Len(SelectSeq(sink[w].tokens, LAMBDA t : t.kind = k /\ t.g = g))

\* C21: in kivybackend.py the step behind an exhausted pass-2 stream hands
\* the token callback, if there is one, the separator "\n\n" once and, unless
\* that callback raises, appends it to the report once and goes to the next
\* date group; nothing of a group reaches the callback behind its separator;
\* between date groups and at the end the report is the filtered pass-2 text
\* of each finished group, in group order, each followed by "\n\n".
C21_SeparatorPerGroup ==
    /\ [][\A w \in Workers :
             (/\ impl = "kivybackend"
              /\ run[w].pc = "separator"
              /\ run'[w] # run[w]) =>
                 /\ sink'[w].tokens =
                       IF run[w].cbs.token_cb
                       THEN Append(sink[w].tokens, [kind |-> "sep", g |-> run[w].gi,
                                                    text |-> SEPARATOR])
                       ELSE sink[w].tokens
                 /\ \/ /\ run'[w].pc = "except"
                       /\ run'[w].exc_at = "token_cb"
                    \/ /\ run'[w].pc = "group_check"
                       /\ run'[w].gi = run[w].gi + 1
                       /\ run'[w].full_output = run[w].full_output \o SEPARATOR]_vars
    /\ [](\A w \in Workers : impl = "kivybackend" =>
             /\ \A i, j \in 1..Len(sink[w].tokens) :
                   i < j => /\ sink[w].tokens[i].g <= sink[w].tokens[j].g
                            /\ sink[w].tokens[i].kind = "sep" =>
                                  sink[w].tokens[i].g < sink[w].tokens[j].g
             /\ \A g \in 0..(Len(run[w].ordered_dates) - 1) :
                   SinkCount(w, "sep", g) =
                       IF run[w].cbs.token_cb /\ g < run[w].gi THEN 1
                       ELSE IF /\ g = run[w].gi
                               /\ run[w].pc \in {"except", "failed"}
                               /\ run[w].exc_at = "token_cb"
                               /\ sink[w].tokens[Len(sink[w].tokens)].kind = "sep"
                       THEN 1
                       ELSE 0
             /\ run[w].pc \in {"group_check", "done", "completed"} =>
                   /\ Len(calls[w]) = 2 * run[w].gi
                   /\ run[w].full_output = GroupsFiltered(w, run[w].gi).out
             /\ run[w].pc = "completed" => run[w].gi = Len(run[w].ordered_dates))

\* C21 witness: a run of kivybackend.py over two date groups is complete;
\* its callback was given two separators and its report holds the filtered
\* text of both groups.
C21_Witness ==
    /\ impl = "kivybackend"
    /\ run[1].pc = "completed"
    /\ run[1].gi = 2
    /\ SinkCount(1, "sep", 0) = 1
    /\ SinkCount(1, "sep", 1) = 1
    /\ run[1].full_output = <<"X", "Y">> \o SEPARATOR \o <<"Y">> \o SEPARATOR

(***************************************************************************)
(* The pass-2 prompt (Spec).                                               *)
(***************************************************************************)
\* C22: every pass-2 call of a run follows the pass-1 call of the same date
\* group; its prompt names that group's date, its item text is the stripped
\* clean summary of the whole stream the pass-1 call returned, and the
\* prompt ends with the suffix " /no_think".
C22_Pass2Prompt ==
    \A w \in Workers : \A k \in 1..Len(calls[w]) :
        /\ calls[w][k].pass = (IF k % 2 = 1 THEN 1 ELSE 2)
        /\ calls[w][k].pass = 2 =>
              /\ calls[w][k].md = run[w].ordered_dates[k \div 2]
              /\ calls[w][k].items_text =
                    Strip(extract_clean_summary(Concat(calls[w][k - 1].reply)))
              /\ calls[w][k].suffix = " /no_think"

\* C22 witness: the pass-2 call of a second date group was made; the pass-1
\* stream of the first group held a summary, that of the second a thinking
\* block and nothing behind it, and the second prompt's item text is empty.
C22_Witness ==
    /\ Len(calls[1]) = 4
    /\ calls[1][1].reply = << <<"S">>, <<>> >>
    /\ calls[1][3].reply = <<>>
    /\ calls[1][2].items_text = <<"S">>
    /\ calls[1][4].items_text = <<>>
    /\ calls[1][4].md = run[1].ordered_dates[2]

(***************************************************************************)
(* The pending buffer of the filter (SpecFilter).                          *)
(***************************************************************************)
\* the marker a filter in state f is waiting for
PendingMarker(f) == IF f.in_think THEN CLOSE_TAG ELSE OPEN_TAG

\* is s made of characters of t, in their order
RECURSIVE IsSubsequence(_, _)
IsSubsequence(s, t) ==
    IF s = <<>> THEN TRUE
    ELSE IF t = <<>> THEN FALSE
    ELSE IF Head(s) = Head(t) THEN IsSubsequence(Tail(s), Tail(t))
    ELSE IsSubsequence(s, Tail(t))

\* C23: behind every filter_token call the buffer is shorter than the marker
\* the filter waits for, is a beginning of that marker and is the end of the
\* text passed so far; the text returned so far is made of the characters in
\* front of the buffer, in their order; a token passed outside a span with no
\* opening marker in reach is returned whole, and a token passed inside a
\* span with no closing marker in reach returns nothing.
C23_BufferInvariant ==
    /\ [](LET buf == f_filter.buf
              passed == SubSeq(f_text, 1, f_pos)
          IN  /\ Len(buf) <= Len(PendingMarker(f_filter)) - 1
              /\ buf = SubSeq(PendingMarker(f_filter), 1, Len(buf))
              /\ buf = SubSeq(passed, f_pos - Len(buf) + 1, f_pos)
              /\ IsSubsequence(f_out, SubSeq(passed, 1, f_pos - Len(buf))))
    /\ [][f_pos' > f_pos =>
             LET token == SubSeq(f_text, f_pos + 1, f_pos')
                 reach == f_filter.buf \o token
             IN  /\ (~f_filter.in_think /\ Find(reach, OPEN_TAG) = -1) =>
                        /\ f_ret' \o f_filter'.buf = reach
                        /\ ~f_filter'.in_think
                 /\ (f_filter.in_think /\ Find(reach, CLOSE_TAG) = -1) =>
                        /\ f_ret' = <<>>
                        /\ f_filter'.in_think]_vars

\* C23 witness: the last call passed a token that ends in "<", the first
\* character of a marker, outside a span, and more text is to come; the
\* buffer is empty.
C23_Witness ==
    /\ f_pos > 0
    /\ f_pos < Len(f_text)
    /\ f_text[f_pos] = "<"
    /\ ~f_filter.in_think
    /\ f_ret # <<>>
    /\ f_filter.buf = <<>>

(***************************************************************************)
(* The worker and the cancellation flag (Spec).                            *)
(***************************************************************************)
\* C24: no step of a started _run_generation changes the cancellation flag,
\* and whenever the flag changes no thread has moved: the flag changes only
\* through the caller.
C24_WorkerOnlyReads ==
    /\ [][\A w \in Workers :
             (run[w].pc # "idle" /\ run'[w] # run[w]) =>
                 cancel_event' = cancel_event]_vars
    /\ [][cancel_event' # cancel_event => <<run, sink, calls>>' = <<run, sink, calls>>]_vars

\* C24 witness: a run has seen the flag set at a check inside a stream loop
\* and returned, and the flag is still set.
C24_Witness ==
    /\ seen_at[1] \in {"pass1", "pass2"}
    /\ run[1].pc = "cancelled"
    /\ cancel_event

(***************************************************************************)
(* The order of the callbacks of kivybackend.py (Spec).                    *)
(***************************************************************************)
\* the chunks of the k-th model call of thread w the stream loop has handled
HandledChunks(w, k) ==
    LET reply == calls[w][k].reply
    IN  IF k < Len(calls[w]) THEN reply
        ELSE SubSeq(reply, 1, Len(reply) - Len(run[w].stream)
                              - (IF run[w].pc \in {"p1_token", "p2_token"} THEN 1 ELSE 0))

\* the token callbacks the handled chunks of the calls k.. of thread w ask
\* for: one for each chunk that is not empty, with its pass and date group
RECURSIVE TokensDue(_, _)
TokensDue(w, k) ==
    IF k > Len(calls[w]) THEN <<>>
    ELSE LET chunks == SelectSeq(HandledChunks(w, k), LAMBDA c : c # <<>>)
         IN  [i \in 1..Len(chunks) |->
                 [kind |-> IF k % 2 = 1 THEN "pass1" ELSE "pass2",
                  g |-> (k - 1) \div 2, text |-> chunks[i]]]
             \o TokensDue(w, k + 1)

\* where a token stands within its date group
KindRank(kind) == CASE kind = "pass1" -> 1 [] kind = "pass2" -> 2 [] OTHER -> 3

\* C25: in kivybackend.py the token callback of a run is given the chunks
\* that are not empty in the order the streams delivered them, group by group
\* and pass 1 before pass 2 before the separator within a group; the
\* callbacks of a run are invoked in steps of its own thread only, and no
\* token callback follows the done callback.
C25_CallbacksInOrder ==
    /\ [](\A w \in Workers : (impl = "kivybackend" /\ run[w].cbs.token_cb) =>
             /\ SelectSeq(sink[w].tokens, LAMBDA t : t.kind # "sep") = TokensDue(w, 1)
             /\ \A i, j \in 1..Len(sink[w].tokens) :
                   i < j => \/ sink[w].tokens[i].g < sink[w].tokens[j].g
                            \/ /\ sink[w].tokens[i].g = sink[w].tokens[j].g
                               /\ KindRank(sink[w].tokens[i].kind)
                                     <= KindRank(sink[w].tokens[j].kind)
                               /\ sink[w].tokens[i].kind # "sep")
    /\ [][\A w \in Workers :
             /\ sink'[w] # sink[w] => (run[w].pc # "idle" /\ run'[w] # run[w])
             /\ sink[w].done # <<>> => sink'[w].tokens = sink[w].tokens]_vars

\* C25 witness: a complete run of kivybackend.py over two date groups whose
\* callback was given pass-1 and pass-2 tokens of both groups, and then the
\* done callback.
C25_Witness ==
    /\ impl = "kivybackend"
    /\ run[1].pc = "completed"
    /\ sink[1].done # <<>>
    /\ \A g \in {0, 1} : /\ SinkCount(1, "pass1", g) = 2
                         /\ SinkCount(1, "pass2", g) = 2

(***************************************************************************)
(* The terminal callbacks of a run (Spec).                                 *)
(***************************************************************************)
\* C27: within one run the done callback and the error callback are never
\* both invoked, and neither is invoked more than once.
C27_ExclusiveOutcomes ==
    \A w \in Workers :
        /\ Len(sink[w].done) <= 1
        /\ Len(sink[w].err) <= 1
        /\ ~(sink[w].done # <<>> /\ sink[w].err # <<>>)

\* neither callback is invoked more than once, and both are invoked only
\* when the exception came out of the done callback itself
OutcomesExclusiveUnlessDoneRaises ==
    \A w \in Workers :
        /\ Len(sink[w].done) <= 1
        /\ Len(sink[w].err) <= 1
        /\ (sink[w].done # <<>> /\ sink[w].err # <<>>) => run[w].exc_at = "done_cb"

(***************************************************************************)
(* The report with and without a token callback (SpecCalls).               *)
(***************************************************************************)
\* have threads v and w been given the same rows and the same model output
SameInput(v, w) ==
    /\ run[v].rows = run[w].rows
    /\ Len(calls[v]) = Len(calls[w])
    /\ \A k \in 1..Len(calls[v]) : calls[v][k].reply = calls[w][k].reply

\* C29: of two complete runs on the same rows and the same model output, one
\* with a token callback and one without, the done callbacks are given the
\* same report text.
C29_ReportIgnoresTokenCb ==
    \A v, w \in Workers :
        (/\ run[v].pc = "completed" /\ run[w].pc = "completed"
         /\ run[v].cbs.done_cb /\ run[w].cbs.done_cb
         /\ run[v].cbs.token_cb /\ ~run[w].cbs.token_cb
         /\ SameInput(v, w)) =>
            sink[v].done[1].text = sink[w].done[1].text

\* the same statement for kivybackend.py alone
ReportIgnoresTokenCbInKivy ==
    impl = "kivybackend" => C29_ReportIgnoresTokenCb

(***************************************************************************)
(* Grouping as a partition of the rows (SpecGroup).                        *)
(***************************************************************************)
\* how often x occurs in s
Count(s, x) == Len(SelectSeq(s, LAMBDA e : e = x))

\* the sizes of the groups of the date keys ds, added up
RECURSIVE GroupSizes(_, _)
GroupSizes(grouped, ds) ==
    IF ds = {} THEN 0
    ELSE LET d == CHOOSE e \in ds : TRUE
         IN  Len(grouped[d]) + GroupSizes(grouped, ds \ {d})

\* C30: behind the grouping loop, and while the date loop sorts the groups,
\* every row is in the group keyed by its date as often as it is in the
\* input and in no other group, no group is empty, the sizes of the groups
\* add up to the number of rows, and ordered_dates holds every key of
\* `grouped` once and nothing else.
C30_GroupingIsPartition ==
    grp.pc = "dates" =>
        /\ \A r \in Rows : \A d \in DOMAIN grp.grouped :
              Count(grp.grouped[d], r) = IF d = r.date THEN Count(grp.rows, r) ELSE 0
        /\ \A i \in 1..Len(grp.rows) : grp.rows[i].date \in DOMAIN grp.grouped
        /\ \A d \in DOMAIN grp.grouped : grp.grouped[d] # <<>>
        /\ GroupSizes(grp.grouped, DOMAIN grp.grouped) = Len(grp.rows)
        /\ \A d \in DOMAIN grp.grouped : Count(grp.ordered_dates, d) = 1
        /\ \A i \in 1..Len(grp.ordered_dates) : grp.ordered_dates[i] \in DOMAIN grp.grouped

\* C30 witness: three rows of two dates, the same row given twice, were
\* grouped into a group of two and a group of one, and both were sorted.
C30_Witness ==
    /\ grp.pc = "dates"
    /\ grp.gi = 2
    /\ Len(grp.rows) = 3
    /\ grp.rows[1] = grp.rows[3]
    /\ grp.rows[2].date # grp.rows[1].date
    /\ Len(grp.grouped[grp.rows[1].date]) = 2
    /\ Len(grp.grouped[grp.rows[2].date]) = 1

(***************************************************************************)
(* Termination of the worker thread (SpecLive).                            *)
(***************************************************************************)
\* one generation run on streams of at most two chunks
InitLive == /\ FilterIdle
            /\ PureIdle
            /\ impl \in {"kivybackend", "backend"}
            /\ llm = [pass1 |-> { <<>>, << <<"S">>, <<>> >> },
                      pass2 |-> { <<>>, << <<"X">>, <<"Y">> >> }]
            /\ llm_model = "None"
            /\ selected_rows \in RunRowSeqs
            /\ cancel_event = FALSE
            /\ raised = "none"
            /\ NoRuns

\* the thread of a run is scheduled again and again while it has a step to
\* take; its streams are finite and its callbacks return or raise
SpecLive == InitLive /\ [][Next]_vars /\ WF_vars(WorkerStep(1))

\* _run_generation has returned
Returned(w) == run[w].pc \in {"completed", "failed", "cancelled"}

\* C28: a started thread returns, whatever the caller does meanwhile: with
\* every date group done, or from the except clause with the exception in
\* hand, or from a check that saw the event set.
C28_Terminates ==
    /\ [](\A w \in Workers :
             /\ run[w].pc = "completed" => run[w].gi = Len(run[w].ordered_dates)
             /\ run[w].pc = "failed" => run[w].exc # "none"
             /\ run[w].pc = "cancelled" => seen_at[w] # "none")
    /\ \A w \in {1} : (run[w].pc = "start") ~> Returned(w)

\* C28 witness: a run over two date groups has made its four model calls
\* and has returned.
C28_Witness ==
    /\ run[1].pc = "completed"
    /\ Len(calls[1]) = 4
    /\ \A k \in 1..4 : Len(calls[1][k].reply) = 2

CancelledRunNeverCompletes ==
    \A e \in ui.late : e.what = "append"

\* while the event stays set, a cancelled generation does nothing to the
\* widgets but append what was waiting for the main thread
SilentWhileEventSet ==
    [][(cancel_event /\ cancel_event') =>
          \A e \in ui'.late \ ui.late : e.what = "append"]_vars

====
